---- MODULE Spec2Model ----
(***************************************************************************)
(* Model of the card sheet generator (generate.py, src/config_loader.py,   *)
(* src/sheet_generator.py, src/page_builder.py).                           *)
(*                                                                         *)
(* One run of generate_sheets is a sequential program; pc is its position. *)
(* Text is a sequence of one-character strings so that lower(), endswith() *)
(* and splitext() are computed, not assumed.  A config number is a Python  *)
(* int or a Python float, as load_config types it, and float arithmetic is *)
(* IEEE-754 double arithmetic, rounded as the interpreter rounds it; a     *)
(* canvas is the ordered log of the paste/line calls made on it.           *)
(***************************************************************************)
EXTENDS Integers, Sequences, FiniteSets, TLC

\* ---------------------------------------------------------------- bounds
MaxFiles == 3
MaxGrid == 2

\* ------------------------------------------------------- input domains
\* values written without a decimal point: load_config makes them ints
PaperMM == {2, 3, 4}
CardMM == {1, 2}
GapMM == {0, 1}
DPIValues == {72}
MarkLengthMM == {1}
Timestamps == {17}

\* values written with a decimal point, in tenths: load_config makes them
\* floats
PaperTenths == {82, 2794}
CardTenths == {30, 1384}
GapTenths == {22, 26}
DecimalDPIValues == {381}

OrientationValues ==
    { <<"P","o","r","t","r","a","i","t">>,
      <<"s","i","d","e","w","a","y","s">> }

OutputFiles ==
    { <<"s",".","p","n","g">>,
      <<"s",".","P","D","F">> }

\* ------------------------------------------------------------ text
UpperAlpha == <<"A","B","C","D","E","F","G","H","I","J","K","L","M",
                "N","O","P","Q","R","S","T","U","V","W","X","Y","Z">>
LowerAlpha == <<"a","b","c","d","e","f","g","h","i","j","k","l","m",
                "n","o","p","q","r","s","t","u","v","w","x","y","z">>

LowerChar(c) ==
    IF \E i \in 1..Len(UpperAlpha) : UpperAlpha[i] = c
    THEN LowerAlpha[CHOOSE i \in 1..Len(UpperAlpha) : UpperAlpha[i] = c]
    ELSE c

Lower(s) == [i \in 1..Len(s) |-> LowerChar(s[i])]

EndsWith(s, suffix) ==
    /\ Len(s) >= Len(suffix)
    /\ SubSeq(s, Len(s) - Len(suffix) + 1, Len(s)) = suffix

\* ------------------------------------------------------------ dict
DictGet(d, key, default) == IF key \in DOMAIN d THEN d[key] ELSE default

Optional(key, present, value) == [k \in (IF present THEN {key} ELSE {}) |-> value]

\* ------------------------------------------------- Python numbers
\* A config number is a Python int, [t |-> "int", v |-> n], or a Python
\* float, [t |-> "float", sig |-> s, exp |-> e]: the IEEE-754 double
\* s * 2^e, s a natural number of exactly 53 bits (or zero) written in
\* limbs of 15 bits, least significant first.  Only values >= 0 occur.
LimbBase == 32768

RECURSIVE BigFromInt(_)
BigFromInt(n) ==
    IF n = 0 THEN <<>> ELSE <<n % LimbBase>> \o BigFromInt(n \div LimbBase)

RECURSIVE BigToInt(_)
BigToInt(a) == IF a = <<>> THEN 0 ELSE a[1] + LimbBase * BigToInt(Tail(a))

RECURSIVE BigNorm(_)
BigNorm(a) ==
    IF a = <<>> \/ a[Len(a)] # 0 THEN a ELSE BigNorm(SubSeq(a, 1, Len(a) - 1))

RECURSIVE BigAddCarry(_, _, _)
BigAddCarry(a, b, carry) ==
    IF a = <<>> /\ b = <<>>
    THEN IF carry = 0 THEN <<>> ELSE <<carry>>
    ELSE LET t == (IF a = <<>> THEN 0 ELSE a[1]) + (IF b = <<>> THEN 0 ELSE b[1]) + carry
         IN <<t % LimbBase>> \o BigAddCarry(IF a = <<>> THEN a ELSE Tail(a),
                                            IF b = <<>> THEN b ELSE Tail(b),
                                            t \div LimbBase)

BigAdd(a, b) == BigAddCarry(a, b, 0)

RECURSIVE BigSubBorrow(_, _, _)
BigSubBorrow(a, b, borrow) ==
    IF a = <<>> THEN <<>>
    ELSE LET t == a[1] - (IF b = <<>> THEN 0 ELSE b[1]) - borrow
         IN <<IF t < 0 THEN t + LimbBase ELSE t>>
               \o BigSubBorrow(Tail(a), IF b = <<>> THEN b ELSE Tail(b),
                               IF t < 0 THEN 1 ELSE 0)

\* a - b for a >= b
BigSub(a, b) == BigNorm(BigSubBorrow(a, b, 0))

RECURSIVE BigCmpFrom(_, _, _)
BigCmpFrom(a, b, i) ==
    IF i = 0 THEN 0
    ELSE IF a[i] # b[i] THEN (IF a[i] < b[i] THEN -1 ELSE 1)
    ELSE BigCmpFrom(a, b, i - 1)

\* -1, 0, 1 as a < b, a = b, a > b
BigCmp(a, b) ==
    IF Len(a) # Len(b) THEN (IF Len(a) < Len(b) THEN -1 ELSE 1)
    ELSE BigCmpFrom(a, b, Len(a))

RECURSIVE BigMulSmallCarry(_, _, _)
BigMulSmallCarry(a, k, carry) ==
    IF a = <<>> THEN (IF carry = 0 THEN <<>> ELSE <<carry>>)
    ELSE LET t == a[1] * k + carry
         IN <<t % LimbBase>> \o BigMulSmallCarry(Tail(a), k, t \div LimbBase)

\* a * k for 0 <= k < LimbBase
BigMulSmall(a, k) == IF k = 0 THEN <<>> ELSE BigMulSmallCarry(a, k, 0)

BigShiftLimb(a) == IF a = <<>> THEN a ELSE <<0>> \o a

RECURSIVE BigMul(_, _)
BigMul(a, b) ==
    IF b = <<>> THEN <<>>
    ELSE IF b[1] = 0 THEN BigShiftLimb(BigMul(a, Tail(b)))
    ELSE IF a # <<>> /\ a[1] = 0 THEN BigShiftLimb(BigMul(Tail(a), b))
    ELSE BigAdd(BigMulSmall(a, b[1]), BigShiftLimb(BigMul(a, Tail(b))))

RECURSIVE BigShiftLimbs(_, _)
BigShiftLimbs(a, n) == IF n = 0 THEN a ELSE BigShiftLimbs(BigShiftLimb(a), n - 1)

\* a * 2^k
BigShl(a, k) ==
    IF k % 15 = 0 THEN BigShiftLimbs(a, k \div 15)
    ELSE BigMulSmall(BigShiftLimbs(a, k \div 15), 2 ^ (k % 15))

RECURSIVE BigDivSmallFrom(_, _, _, _)
BigDivSmallFrom(a, d, i, rem) ==
    IF i = 0 THEN <<>>
    ELSE LET t == rem * LimbBase + a[i]
         IN BigDivSmallFrom(a, d, i - 1, t % d) \o <<t \div d>>

\* floor(a / d) for 0 < d <= LimbBase
BigDivSmall(a, d) == BigNorm(BigDivSmallFrom(a, d, Len(a), 0))

\* floor(a / 2^k)
BigShr(a, k) ==
    IF k \div 15 >= Len(a) THEN <<>>
    ELSE IF k % 15 = 0 THEN SubSeq(a, (k \div 15) + 1, Len(a))
    ELSE BigDivSmall(SubSeq(a, (k \div 15) + 1, Len(a)), 2 ^ (k % 15))

RECURSIVE BitLenSmall(_)
BitLenSmall(n) == IF n = 0 THEN 0 ELSE 1 + BitLenSmall(n \div 2)

BigBitLen(a) == IF a = <<>> THEN 0 ELSE 15 * (Len(a) - 1) + BitLenSmall(a[Len(a)])

BigIsOdd(a) == a # <<>> /\ a[1] % 2 = 1

RECURSIVE LongDivide(_, _, _)
\* steps quotient bits of rem / d (rem < d), halving the work so that the
\* nesting stays shallow: [q |-> quotient, rem |-> remainder]
LongDivide(rem, d, steps) ==
    IF steps = 1
    THEN LET r2 == BigShl(rem, 1)
         IN IF BigCmp(r2, d) >= 0
            THEN [q |-> <<1>>, rem |-> BigSub(r2, d)]
            ELSE [q |-> <<>>, rem |-> r2]
    ELSE LET high == LongDivide(rem, d, steps \div 2)
             low == LongDivide(high.rem, d, steps - (steps \div 2))
         IN [q |-> BigAdd(BigShl(high.q, steps - (steps \div 2)), low.q),
             rem |-> low.rem]

RECURSIVE TrailingZeros(_)
\* the number of trailing zero bits of a # <<>>
TrailingZeros(a) ==
    IF a[1] = 0 THEN 15 + TrailingZeros(Tail(a))
    ELSE IF a[1] % 2 = 0 THEN 1 + TrailingZeros(<<a[1] \div 2>>)
    ELSE 0

FloatZero == [t |-> "float", sig |-> <<>>, exp |-> 0]

PyInt(n) == [t |-> "int", v |-> n]

\* Every operation on Python numbers is one case of Arith, so that an
\* operation is evaluated the same way wherever it is applied.
RECURSIVE Arith(_, _, _)

\* n * 2^e rounded to the nearest double, ties to even
RoundToDouble(n, e) == Arith("RoundToDouble", n, e)

\* float(n) for an int, the value itself for a float
ToFloat(x) == Arith("ToFloat", x, 0)

FloatMul(x, y) == Arith("FloatMul", x, y)

FloatAdd(x, y) == Arith("FloatAdd", x, y)

\* x / y, y # 0, correctly rounded
FloatDiv(x, y) == Arith("FloatDiv", x, y)

\* -1, 0, 1 as x < y, x = y, x > y
FloatCmp(x, y) == Arith("FloatCmp", x, y)

\* int(x): truncation
FloatToInt(x) == Arith("FloatToInt", x, 0)

\* float("<tenths/10>"), the decimal literal with one fractional digit
Decimal(tenths) == Arith("Decimal", tenths, 0)

\* Python arithmetic on int and float operands
NumMul(a, b) == Arith("NumMul", a, b)

NumAdd(a, b) == Arith("NumAdd", a, b)

\* -1, 0, 1 as a < b, a = b, a > b
NumCmp(a, b) == Arith("NumCmp", a, b)

\* a / b: always a float
NumTrueDiv(a, b) == Arith("NumTrueDiv", a, b)

\* int(a)
NumToInt(a) == Arith("NumToInt", a, 0)

Arith(op, x, y) ==
    CASE op = "NumMul" ->
           IF x.t = "int" /\ y.t = "int" THEN PyInt(x.v * y.v)
           ELSE FloatMul(ToFloat(x), ToFloat(y))
      [] op = "NumAdd" ->
           IF x.t = "int" /\ y.t = "int" THEN PyInt(x.v + y.v)
           ELSE FloatAdd(ToFloat(x), ToFloat(y))
      [] op = "NumCmp" ->
           IF x.t = "int" /\ y.t = "int"
           THEN (IF x.v < y.v THEN -1 ELSE IF x.v = y.v THEN 0 ELSE 1)
           ELSE FloatCmp(ToFloat(x), ToFloat(y))
      [] op = "NumTrueDiv" -> FloatDiv(ToFloat(x), ToFloat(y))
      [] op = "NumToInt" -> IF x.t = "int" THEN x.v ELSE FloatToInt(x)
      [] op = "ToFloat" ->
           IF x.t = "int" THEN RoundToDouble(BigFromInt(x.v), 0) ELSE x
      [] op = "Decimal" -> FloatDiv(ToFloat(PyInt(x)), ToFloat(PyInt(10)))
      [] op = "FloatMul" -> RoundToDouble(BigMul(x.sig, y.sig), x.exp + y.exp)
      [] op = "FloatAdd" ->
           IF x.sig = <<>> THEN y
           ELSE IF y.sig = <<>> THEN x
           ELSE LET e == IF x.exp < y.exp THEN x.exp ELSE y.exp
                IN RoundToDouble(BigAdd(BigShl(x.sig, x.exp - e),
                                        BigShl(y.sig, y.exp - e)), e)
      [] op = "FloatCmp" ->
           IF x.sig = <<>> \/ y.sig = <<>>
           THEN (IF x.sig = y.sig THEN 0 ELSE IF x.sig = <<>> THEN -1 ELSE 1)
           ELSE IF x.exp # y.exp THEN (IF x.exp < y.exp THEN -1 ELSE 1)
           ELSE BigCmp(x.sig, y.sig)
      [] op = "FloatToInt" ->
           IF x.sig = <<>> THEN 0
           ELSE IF x.exp >= 0 THEN BigToInt(BigShl(x.sig, x.exp))
           ELSE BigToInt(BigShr(x.sig, -x.exp))
      [] op = "FloatDiv" ->
           \* a divisor m * 2^k with m of one limb takes one pass of short
           \* division; any other takes bitwise long division.  Either way
           \* the quotient has more than 55 bits and a sticky bit.
           IF x.sig = <<>> THEN FloatZero
           ELSE IF 53 - TrailingZeros(y.sig) <= 15
           THEN LET zeros == TrailingZeros(y.sig)
                    m == BigToInt(BigShr(y.sig, zeros))
                    n == BigShl(x.sig, 30)
                    q == BigDivSmall(n, m)
                    sticky == IF BigMulSmall(q, m) = n THEN <<>> ELSE <<1>>
                IN RoundToDouble(BigAdd(BigShl(q, 1), sticky),
                                 x.exp - (y.exp + zeros) - 31)
           ELSE LET ge == BigCmp(x.sig, y.sig) >= 0
                    qr == LongDivide(IF ge THEN BigSub(x.sig, y.sig) ELSE x.sig,
                                     y.sig, 56)
                    q == BigAdd(IF ge THEN BigShl(<<1>>, 56) ELSE <<>>, qr.q)
                    sticky == IF qr.rem = <<>> THEN <<>> ELSE <<1>>
                IN RoundToDouble(BigAdd(BigShl(q, 1), sticky), x.exp - y.exp - 57)
      [] op = "RoundToDouble" ->
           LET len == BigBitLen(x)
           IN IF len = 0 THEN FloatZero
              ELSE IF len <= 53
              THEN [t |-> "float", sig |-> BigShl(x, 53 - len), exp |-> y - (53 - len)]
              ELSE LET shift == len - 53
                       \* the 53 kept bits and the first dropped one
                       kept == BigShr(x, shift - 1)
                       q == BigShr(kept, 1)
                       \* more than half: the first dropped bit and a later one
                       \* set; exactly half: only the first dropped bit set
                       up == /\ BigIsOdd(kept)
                             /\ TrailingZeros(x) < shift - 1 \/ BigIsOdd(q)
                       r == IF up THEN BigAdd(q, <<1>>) ELSE q
                   IN IF BigBitLen(r) = 54
                      THEN [t |-> "float", sig |-> BigShr(r, 1), exp |-> y + shift + 1]
                      ELSE [t |-> "float", sig |-> r, exp |-> y + shift]

\* The configurations a config file can hold (after load_config's typing).
Configs ==
    { [PAPER_WIDTH_MM |-> PyInt(pw), PAPER_HEIGHT_MM |-> PyInt(ph), DPI |-> d,
       CARD_WIDTH_MM |-> PyInt(cw), CARD_HEIGHT_MM |-> PyInt(ch),
       GAP_MM |-> PyInt(g), GRID_COLS |-> gc, GRID_ROWS |-> gr,
       MARK_LENGTH_MM |-> PyInt(ml), OUTPUT_FILE |-> o]
      @@ Optional("PAPER_ORIENTATION", po # <<>>, po)
      @@ Optional("GUIDE_LINE_ENABLED", ge # "absent", ge = "true") :
        pw \in PaperMM, ph \in PaperMM, d \in DPIValues,
        cw \in CardMM, ch \in CardMM, g \in GapMM,
        gc \in 1..MaxGrid, gr \in 1..MaxGrid, ml \in MarkLengthMM,
        o \in OutputFiles,
        po \in OrientationValues \cup {<<>>},
        ge \in {"absent", "true", "false"} }

\* Configurations whose millimetre values carry a decimal point.
DecimalConfigs ==
    { [PAPER_WIDTH_MM |-> Decimal(pw), PAPER_HEIGHT_MM |-> Decimal(ph), DPI |-> d,
       CARD_WIDTH_MM |-> Decimal(cw), CARD_HEIGHT_MM |-> Decimal(ch),
       GAP_MM |-> Decimal(g), GRID_COLS |-> gc, GRID_ROWS |-> gr,
       MARK_LENGTH_MM |-> PyInt(ml), OUTPUT_FILE |-> o] :
        pw \in PaperTenths, ph \in PaperTenths, d \in DecimalDPIValues,
        cw \in CardTenths, ch \in CardTenths, g \in GapTenths,
        gc \in 1..MaxGrid, gr \in 1..MaxGrid, ml \in MarkLengthMM,
        o \in OutputFiles }

VARIABLES
    pc,               \* position in generate_sheets
    confFiles,        \* which of current.conf / default.conf exist
    config,           \* the dict load_config returned
    orientation,      \* lower-cased PAPER_ORIENTATION
    paper_mm,         \* <<paper_width_mm, paper_height_mm>> after orientation
    px,               \* pixel sizes derived with the one mm_to_pixels factor
    output_path,      \* outputs/<timestamp>_<OUTPUT_FILE>
    corrupt,          \* the image files that cannot be opened or resized
    image_files,      \* the sorted list _get_image_files returned
    total_pages,
    start,            \* <<start_x, start_y>>
    page_cards,       \* the slice handed to create_single_page, per page
    pages,            \* the canvases, in page order
    written,          \* the files _save_pages wrote, in order
    stdout            \* what the run reported

vars == <<pc, confFiles, config, orientation, paper_mm, px, output_path,
          corrupt, image_files, total_pages, start, page_cards, pages,
          written, stdout>>

\* ------------------------------------------------ orientation, units
\* Mutation: the landscape branch swaps on the wrong comparison.
NormalizeOrientationSwapped(o, base_width_mm, base_height_mm) ==
    IF o = <<"p","o","r","t","r","a","i","t">>
    THEN IF NumCmp(base_width_mm, base_height_mm) > 0
         THEN <<base_height_mm, base_width_mm>>
         ELSE <<base_width_mm, base_height_mm>>
    ELSE IF NumCmp(base_width_mm, base_height_mm) > 0
         THEN <<base_height_mm, base_width_mm>>
         ELSE <<base_width_mm, base_height_mm>>

\* sheet_generator.generate_sheets, lines 33-48
NormalizeOrientation(o, base_width_mm, base_height_mm) ==
    IF o = <<"p","o","r","t","r","a","i","t">>
    THEN IF NumCmp(base_width_mm, base_height_mm) > 0
         THEN <<base_height_mm, base_width_mm>>
         ELSE <<base_width_mm, base_height_mm>>
    ELSE IF NumCmp(base_width_mm, base_height_mm) < 0
         THEN <<base_height_mm, base_width_mm>>
         ELSE <<base_width_mm, base_height_mm>>

\* line 53: mm_to_pixels = dpi / 25.4, a float; 25.4 is the literal's double
MmPerInch == Decimal(254)

MmToPixels(dpi) == NumTrueDiv(PyInt(dpi), MmPerInch)

\* int(mm * mm_to_pixels): the float product, truncated
ToPixels(mm, mm_to_pixels) == NumToInt(NumMul(mm, mm_to_pixels))

\* ------------------------------------------------------------ folder
\* A directory entry: its name (stem, standing for the sort key) and its
\* extension.  Entry 0 is a text file; entry 1 carries an upper-case
\* extension.
Entry(n) ==
    [stem |-> n,
     ext |-> IF n = 0 THEN <<".","t","x","t">>
             ELSE IF n = 1 THEN <<".","P","N","G">>
             ELSE IF n % 2 = 0 THEN <<".","j","p","g">>
             ELSE <<".","p","n","g">>]

Folders == { {Entry(i) : i \in 0..n} : n \in 0..MaxFiles }

SupportedExtensions ==
    { <<".","p","n","g">>, <<".","j","p","g">>, <<".","j","p","e","g">>,
      <<".","w","e","b","p">>, <<".","b","m","p">> }

RECURSIVE Sorted(_)
Sorted(entries) ==
    IF entries = {} THEN <<>>
    ELSE LET first == CHOOSE e \in entries :
                          \A f \in entries : e.stem <= f.stem
         IN <<first>> \o Sorted(entries \ {first})

RECURSIVE Filter(_)
Filter(listing) ==
    IF listing = <<>> THEN <<>>
    ELSE LET file == Head(listing)
         IN (IF \E e \in SupportedExtensions : EndsWith(Lower(file.ext), e)
             THEN <<file>> ELSE <<>>) \o Filter(Tail(listing))

\* sheet_generator._get_image_files, lines 182-188
GetImageFiles(folder) == Filter(Sorted(folder))

Init ==
    /\ pc = "load_config"
    /\ confFiles \in {{}, {"default"}, {"current", "default"}}
    /\ config = <<>>
    /\ orientation = <<>>
    /\ paper_mm = <<PyInt(0), PyInt(0)>>
    /\ px = <<>>
    /\ output_path = <<>>
    /\ corrupt = {}
    /\ image_files = <<>>
    /\ total_pages = 0
    /\ start = <<0, 0>>
    /\ page_cards = <<>>
    /\ pages = <<>>
    /\ written = <<>>
    /\ stdout = <<>>

\* config_loader.load_config, lines 26-45 and 47-69, for a config file
\* holding one of configs
LoadConfigFrom(configs) ==
    /\ pc = "load_config"
    /\ IF "current" \notin confFiles /\ "default" \notin confFiles
       THEN /\ stdout' = Append(stdout, [msg |-> "ConfigMissing"])
            /\ pc' = "exit1"
            /\ UNCHANGED <<confFiles, config>>
       ELSE /\ confFiles' = confFiles \cup {"current"}
            /\ \E c \in configs : config' = c
            /\ pc' = "orientation"
            /\ UNCHANGED stdout
    /\ UNCHANGED <<orientation, paper_mm, px, output_path, corrupt,
                   image_files, total_pages, start, page_cards, pages,
                   written>>

LoadConfig == LoadConfigFrom(Configs)

LoadDecimalConfig == LoadConfigFrom(DecimalConfigs)

\* generate_sheets, lines 27-48
ApplyOrientation ==
    /\ pc = "orientation"
    /\ LET o == Lower(DictGet(config, "PAPER_ORIENTATION",
                              <<"l","a","n","d","s","c","a","p","e">>))
       IN /\ orientation' = o
          /\ paper_mm' = NormalizeOrientation(o, config.PAPER_WIDTH_MM,
                                              config.PAPER_HEIGHT_MM)
    /\ pc' = "convert"
    /\ UNCHANGED <<confFiles, config, px, output_path, corrupt, image_files,
                   total_pages, start, page_cards, pages, written, stdout>>

\* ------------------------------------------------------- output name
Digits == <<"0","1","2","3","4","5","6","7","8","9">>

RECURSIVE IntToText(_)
IntToText(n) ==
    IF n < 10 THEN <<Digits[n + 1]>>
    ELSE IntToText(n \div 10) \o <<Digits[(n % 10) + 1]>>

\* generate_sheets, lines 72-78: os.path.join("outputs", f"{timestamp}_{name}")
OutputPath(timestamp, output_filename) ==
    <<"o","u","t","p","u","t","s","/">> \o IntToText(timestamp) \o <<"_">>
        \o output_filename

\* generate_sheets, lines 50-78
ConvertUnits ==
    /\ pc = "convert"
    /\ LET mm_to_pixels == MmToPixels(config.DPI)
       IN px' = [mm_to_pixels |-> mm_to_pixels,
                 paper_width_px |-> ToPixels(paper_mm[1], mm_to_pixels),
                 paper_height_px |-> ToPixels(paper_mm[2], mm_to_pixels),
                 card_width_px |-> ToPixels(config.CARD_WIDTH_MM, mm_to_pixels),
                 card_height_px |-> ToPixels(config.CARD_HEIGHT_MM, mm_to_pixels),
                 spacing_px |-> ToPixels(config.GAP_MM, mm_to_pixels)]
    /\ \E timestamp \in Timestamps :
          output_path' = OutputPath(timestamp, config.OUTPUT_FILE)
    /\ pc' = "list_images"
    /\ UNCHANGED <<confFiles, config, orientation, paper_mm, corrupt,
                   image_files, total_pages, start, page_cards, pages,
                   written, stdout>>

\* Mutation: the empty listing is not detected.
NoImagesNever(files) == FALSE

\* generate_sheets, line 83
NoImages(files) == Len(files) = 0

\* generate_sheets, lines 80-86
ListImages ==
    /\ pc = "list_images"
    /\ \E folder \in Folders :
          /\ image_files' = GetImageFiles(folder)
          /\ \E bad \in SUBSET {e.stem : e \in folder} :
                corrupt' = bad \cap {image_files'[i].stem :
                                         i \in 1..Len(image_files')}
    /\ IF NoImages(image_files')
       THEN /\ stdout' = Append(stdout, [msg |-> "NoImagesFound"])
            /\ pc' = "returned"
       ELSE /\ pc' = "validate"
            /\ UNCHANGED stdout
    /\ UNCHANGED <<confFiles, config, orientation, paper_mm, px, output_path,
                   total_pages, start, page_cards, pages, written>>

\* ------------------------------------------------------ grid-fit check
\* Mutation: one gap per card instead of one gap between cards.
TotalNeededGapPerCard(card_mm, gap_mm, grid_n) == NumAdd(NumMul(card_mm, PyInt(grid_n)), NumMul(gap_mm, PyInt(grid_n)))

\* _validate_grid_fits, lines 207-208
TotalNeeded(card_mm, gap_mm, grid_n) == NumAdd(NumMul(card_mm, PyInt(grid_n)), NumMul(gap_mm, PyInt(grid_n - 1)))

\* int(a / b) for a >= 0, b > 0.  Between two ints the quotient a / b lies
\* at least 1 / b below the next integer, which is more than the rounding
\* of a double can bridge, so the truncated float quotient is the integer
\* quotient; with a float operand the division is the float division.
TruncatedQuotient(a, b) ==
    IF a.t = "int" /\ b.t = "int" THEN a.v \div b.v
    ELSE NumToInt(NumTrueDiv(a, b))

\* _validate_grid_fits, lines 231-232: int((paper + gap) / (card + gap))
MaxFit(paper, gap_mm, card_mm) == TruncatedQuotient(NumAdd(paper, gap_mm), NumAdd(card_mm, gap_mm))

\* Mutation: the other orientation is suggested when either axis would fit.
SuggestionEitherAxis(paper_width_mm, paper_height_mm, card_width_mm, card_height_mm, gap_mm, grid_cols, grid_rows, o) ==
    LET other_max_cols == MaxFit(paper_height_mm, gap_mm, card_width_mm)
        other_max_rows == MaxFit(paper_width_mm, gap_mm, card_height_mm)
    IN IF other_max_cols >= grid_cols \/ other_max_rows >= grid_rows
       THEN <<[try |-> IF o = <<"p","o","r","t","r","a","i","t">>
                       THEN "landscape" ELSE "portrait",
               cols |-> other_max_cols, rows |-> other_max_rows]>>
       ELSE <<>>

\* _validate_grid_fits, lines 237-250: the other orientation is suggested
\* only when its maximum grid holds the requested one
Suggestion(paper_width_mm, paper_height_mm, card_width_mm, card_height_mm, gap_mm, grid_cols, grid_rows, o) ==
    LET other_max_cols == MaxFit(paper_height_mm, gap_mm, card_width_mm)
        other_max_rows == MaxFit(paper_width_mm, gap_mm, card_height_mm)
    IN IF other_max_cols >= grid_cols /\ other_max_rows >= grid_rows
       THEN <<[try |-> IF o = <<"p","o","r","t","r","a","i","t">>
                       THEN "landscape" ELSE "portrait",
               cols |-> other_max_cols, rows |-> other_max_rows]>>
       ELSE <<>>

\* _validate_grid_fits, lines 206-257: the outcome and, on failure, the
\* diagnostic printed before sys.exit(1)
ValidateGridFits(paper_width_mm, paper_height_mm, card_width_mm, card_height_mm, gap_mm, grid_cols, grid_rows, o) ==
    LET total_width_needed == TotalNeeded(card_width_mm, gap_mm, grid_cols)
        total_height_needed == TotalNeeded(card_height_mm, gap_mm, grid_rows)
        width_fits == NumCmp(total_width_needed, paper_width_mm) <= 0
        height_fits == NumCmp(total_height_needed, paper_height_mm) <= 0
    IN IF ~width_fits \/ ~height_fits
       THEN [ok |-> FALSE,
             report |-> [msg |-> "GridTooLarge",
                         width_needed |-> total_width_needed,
                         height_needed |-> total_height_needed,
                         width_fits |-> width_fits,
                         height_fits |-> height_fits,
                         max_cols |-> MaxFit(paper_width_mm, gap_mm, card_width_mm),
                         max_rows |-> MaxFit(paper_height_mm, gap_mm, card_height_mm),
                         suggestion |-> Suggestion(paper_width_mm, paper_height_mm,
                                                   card_width_mm, card_height_mm,
                                                   gap_mm, grid_cols, grid_rows, o)]]
       ELSE [ok |-> TRUE, report |-> <<>>]

\* generate_sheets, lines 88-103
ValidateGrid ==
    /\ pc = "validate"
    /\ LET r == ValidateGridFits(paper_mm[1], paper_mm[2],
                                 config.CARD_WIDTH_MM, config.CARD_HEIGHT_MM,
                                 config.GAP_MM, config.GRID_COLS,
                                 config.GRID_ROWS, orientation)
       IN IF r.ok
          THEN /\ pc' = "layout"
               /\ UNCHANGED stdout
          ELSE /\ stdout' = Append(stdout, r.report)
               /\ pc' = "exit1"
    /\ UNCHANGED <<confFiles, config, orientation, paper_mm, px, output_path,
                   corrupt, image_files, total_pages, start, page_cards,
                   pages, written>>

\* ------------------------------------------------------------ layout
\* Mutation: the page count rounds down.
TotalPagesFloor(n_files, cards_per_page) == n_files \div cards_per_page

\* generate_sheets, line 106
TotalPages(n_files, cards_per_page) == (n_files + cards_per_page - 1) \div cards_per_page

\* generate_sheets, lines 125-126 and page_builder lines 243-244
TotalGrid(card_px, spacing_px, grid_n) == (card_px * grid_n) + (spacing_px * (grid_n - 1))

\* Mutation: the offset rounds up.
StartOffsetCeil(paper_px, total_grid) == (paper_px - total_grid + 1) \div 2

\* generate_sheets, lines 128-129: Python's // rounds toward minus infinity
StartOffset(paper_px, total_grid) == (paper_px - total_grid) \div 2

\* generate_sheets, lines 134-136: image_files[start_idx:end_idx], page_num 0-based
Min(a, b) == IF a < b THEN a ELSE b

PageSlice(files, page_num, cards_per_page) ==
    LET start_idx == page_num * cards_per_page
        end_idx == Min(start_idx + cards_per_page, Len(files))
    IN SubSeq(files, start_idx + 1, end_idx)

\* generate_sheets, lines 105-129
ComputeLayout ==
    /\ pc = "layout"
    /\ total_pages' = TotalPages(Len(image_files),
                                 config.GRID_COLS * config.GRID_ROWS)
    /\ start' = <<StartOffset(px.paper_width_px,
                              TotalGrid(px.card_width_px, px.spacing_px,
                                        config.GRID_COLS)),
                  StartOffset(px.paper_height_px,
                              TotalGrid(px.card_height_px, px.spacing_px,
                                        config.GRID_ROWS))>>
    /\ pc' = "pages"
    /\ UNCHANGED <<confFiles, config, orientation, paper_mm, px, output_path,
                   corrupt, image_files, page_cards, pages, written, stdout>>

\* ------------------------------------------------------ page compositor
\* Mutation: the gap is left out of the slot pitch.
SlotOriginNoGap(start_xy, index, card_px, spacing_px) == start_xy + index * card_px

\* page_builder lines 120-121 and 182-183, 248, 257: a slot's origin on one axis
SlotOrigin(start_xy, index, card_px, spacing_px) ==
    start_xy + index * (card_px + spacing_px)

\* Mutation: the index advances inside the try block only.
NextCardIndexInTry(card_index, failed) ==
    IF failed THEN card_index ELSE card_index + 1

\* page_builder._place_cards, line 144: the index advances whether or not
\* the image could be pasted
NextCardIndex(card_index, failed) == card_index + 1

\* page_builder._place_cards, lines 113-147
PlaceCards(files, grid_rows, grid_cols, start_x, start_y, card_width_px, card_height_px, spacing_px, bad) ==
    LET RECURSIVE ColLoop(_, _, _)
        ColLoop(row, col, acc) ==
            IF col >= grid_cols \/ acc.card_index >= Len(files) THEN acc
            ELSE LET x == SlotOrigin(start_x, col, card_width_px, spacing_px)
                     y == SlotOrigin(start_y, row, card_height_px, spacing_px)
                     file == files[acc.card_index + 1]
                     failed == file.stem \in bad
                 IN ColLoop(row, col + 1,
                      IF failed
                      THEN [acc EXCEPT
                              !.card_index = NextCardIndex(@, TRUE),
                              !.errors = Append(@, [msg |-> "ImageLoadFailure",
                                                    file |-> file])]
                      ELSE [acc EXCEPT
                              !.card_index = NextCardIndex(@, FALSE),
                              !.ops = Append(@, [op |-> "paste", image |-> file,
                                                 at |-> <<x, y>>,
                                                 size |-> <<card_width_px,
                                                            card_height_px>>])])
        RECURSIVE RowLoop(_, _)
        RowLoop(row, acc) ==
            IF row >= grid_rows THEN acc
            ELSE LET a == ColLoop(row, 0, acc)
                 IN IF a.card_index >= Len(files) THEN a
                    ELSE RowLoop(row + 1, a)
    IN RowLoop(0, [card_index |-> 0, ops |-> <<>>, errors |-> <<>>])

\* Mutation: the bottom corners are offset by the card width.
CornersSquare(x, y, card_width_px, card_height_px) ==
    << <<x, y>>, <<x + card_width_px, y>>, <<x, y + card_width_px>>,
       <<x + card_width_px, y + card_width_px>> >>

\* page_builder._add_corner_marks, lines 186-191
Corners(x, y, card_width_px, card_height_px) ==
    << <<x, y>>, <<x + card_width_px, y>>, <<x, y + card_height_px>>,
       <<x + card_width_px, y + card_height_px>> >>

\* page_builder._add_corner_marks, lines 193-213
Cross(corner, mark_length) ==
    << [op |-> "line", from |-> <<corner[1] - mark_length, corner[2]>>,
        to |-> <<corner[1] + mark_length, corner[2]>>, fill |-> "MARK_COLOR"],
       [op |-> "line", from |-> <<corner[1], corner[2] - mark_length>>,
        to |-> <<corner[1], corner[2] + mark_length>>, fill |-> "MARK_COLOR"] >>

\* page_builder._add_corner_marks, lines 164-218
AddCornerMarks(files, grid_rows, grid_cols, start_x, start_y, card_width_px, card_height_px, spacing_px, mark_length) ==
    LET RECURSIVE ColLoop(_, _, _)
        ColLoop(row, col, acc) ==
            IF col >= grid_cols \/ acc.card_index >= Len(files) THEN acc
            ELSE LET x == SlotOrigin(start_x, col, card_width_px, spacing_px)
                     y == SlotOrigin(start_y, row, card_height_px, spacing_px)
                     c == Corners(x, y, card_width_px, card_height_px)
                 IN ColLoop(row, col + 1,
                      [card_index |-> acc.card_index + 1,
                       ops |-> acc.ops \o Cross(c[1], mark_length)
                                       \o Cross(c[2], mark_length)
                                       \o Cross(c[3], mark_length)
                                       \o Cross(c[4], mark_length)])
        RECURSIVE RowLoop(_, _)
        RowLoop(row, acc) ==
            IF row >= grid_rows THEN acc
            ELSE LET a == ColLoop(row, 0, acc)
                 IN IF a.card_index >= Len(files) THEN a
                    ELSE RowLoop(row + 1, a)
    IN RowLoop(0, [card_index |-> 0, ops |-> <<>>]).ops

\* page_builder._add_guide_lines, lines 233-262
AddGuideLines(cfg, grid_rows, grid_cols, start_x, start_y, card_width_px, card_height_px, spacing_px) ==
    IF ~DictGet(cfg, "GUIDE_LINE_ENABLED", TRUE) THEN <<>>
    ELSE LET total_grid_width == TotalGrid(card_width_px, spacing_px, grid_cols)
             total_grid_height == TotalGrid(card_height_px, spacing_px, grid_rows)
             vertical ==
                 [k \in 1..(grid_cols + 1) |->
                    LET x == SlotOrigin(start_x, k - 1, card_width_px, spacing_px)
                    IN [op |-> "line", from |-> <<x, start_y>>,
                        to |-> <<x, start_y + total_grid_height>>,
                        fill |-> "GUIDE_LINE_COLOR"]]
             horizontal ==
                 [k \in 1..(grid_rows + 1) |->
                    LET y == SlotOrigin(start_y, k - 1, card_height_px, spacing_px)
                    IN [op |-> "line", from |-> <<start_x, y>>,
                        to |-> <<start_x + total_grid_width, y>>,
                        fill |-> "GUIDE_LINE_COLOR"]]
         IN vertical \o horizontal

\* page_builder.create_single_page, lines 45-97: the canvas and what was printed
CreateSinglePageResult(files, cfg, card_width_px, card_height_px, spacing_px, paper_width_px, paper_height_px, start_x, start_y, MM_TO_PIXELS, bad) ==
    LET grid_cols == cfg.GRID_COLS
        grid_rows == cfg.GRID_ROWS
        placed == PlaceCards(files, grid_rows, grid_cols, start_x, start_y,
                             card_width_px, card_height_px, spacing_px, bad)
        marks == AddCornerMarks(files, grid_rows, grid_cols, start_x, start_y,
                                card_width_px, card_height_px, spacing_px,
                                ToPixels(cfg.MARK_LENGTH_MM, MM_TO_PIXELS))
        guides == AddGuideLines(cfg, grid_rows, grid_cols, start_x, start_y,
                                card_width_px, card_height_px, spacing_px)
    IN [canvas |-> [size |-> <<paper_width_px, paper_height_px>>,
                    ops |-> placed.ops \o marks \o guides],
        errors |-> placed.errors]

\* generate_sheets, lines 133-152: one iteration of the page loop
CreateSinglePage ==
    /\ pc = "pages"
    /\ Len(pages) < total_pages
    /\ LET page_num == Len(pages)
           cards == PageSlice(image_files, page_num,
                              config.GRID_COLS * config.GRID_ROWS)
           r == CreateSinglePageResult(cards, config, px.card_width_px,
                                       px.card_height_px, px.spacing_px,
                                       px.paper_width_px, px.paper_height_px,
                                       start[1], start[2],
                                       px.mm_to_pixels, corrupt)
       IN /\ page_cards' = Append(page_cards, cards)
          /\ pages' = Append(pages, r.canvas)
          /\ stdout' = stdout \o r.errors
    /\ UNCHANGED <<pc, confFiles, config, orientation, paper_mm, px,
                   output_path, corrupt, image_files, total_pages, start,
                   written>>

\* ------------------------------------------------------------ writer
\* os.path.splitext: the extension starts at the last dot of the last path
\* component, unless only dots precede it there
LastIndexOf(s, c) ==
    IF \E i \in 1..Len(s) : s[i] = c
    THEN CHOOSE i \in 1..Len(s) : s[i] = c /\ \A j \in (i + 1)..Len(s) : s[j] # c
    ELSE 0

SplitExt(path) ==
    LET sepIndex == LastIndexOf(path, "/")
        dotIndex == LastIndexOf(path, ".")
    IN IF dotIndex > sepIndex
          /\ \E k \in (sepIndex + 1)..(dotIndex - 1) : path[k] # "."
       THEN <<SubSeq(path, 1, dotIndex - 1), SubSeq(path, dotIndex, Len(path))>>
       ELSE <<path, <<>> >>

\* Mutation: the page number is appended even when there is one page.
SavedFilesAlwaysSuffix(canvases, path) ==
    IF EndsWith(Lower(path), <<".","p","d","f">>)
    THEN <<[name |-> path, format |-> "PDF", images |-> canvases]>>
    ELSE [i \in 1..Len(canvases) |->
            [name |-> SplitExt(path)[1] \o <<"_">> \o IntToText(i) \o SplitExt(path)[2],
             format |-> "PNG", images |-> <<canvases[i]>>]]

\* sheet_generator._save_pages, lines 303-337: the files written, in order
SavedFiles(canvases, path) ==
    IF EndsWith(Lower(path), <<".","p","d","f">>)
    THEN <<[name |-> path, format |-> "PDF", images |-> canvases]>>
    ELSE LET base_name == SplitExt(path)[1]
             ext == SplitExt(path)[2]
         IN IF Len(canvases) = 1
            THEN <<[name |-> path, format |-> "PNG", images |-> <<canvases[1]>>]>>
            ELSE [i \in 1..Len(canvases) |->
                    [name |-> base_name \o <<"_">> \o IntToText(i) \o ext,
                     format |-> "PNG", images |-> <<canvases[i]>>]]

\* generate_sheets, lines 154-155
SavePages ==
    /\ pc = "pages"
    /\ Len(pages) = total_pages
    /\ written' = SavedFiles(pages, output_path)
    /\ pc' = "done"
    /\ UNCHANGED <<confFiles, config, orientation, paper_mm, px, output_path,
                   corrupt, image_files, total_pages, start, page_cards,
                   pages, stdout>>

Next ==
    \/ LoadConfig
    \/ ApplyOrientation
    \/ ConvertUnits
    \/ ListImages
    \/ ValidateGrid
    \/ ComputeLayout
    \/ CreateSinglePage
    \/ SavePages

Spec == Init /\ [][Next]_vars

\* The same program run on a config file with decimal millimetre values.
NextDecimal ==
    \/ LoadDecimalConfig
    \/ ApplyOrientation
    \/ ConvertUnits
    \/ ListImages
    \/ ValidateGrid
    \/ ComputeLayout
    \/ CreateSinglePage
    \/ SavePages

SpecDecimal == Init /\ [][NextDecimal]_vars

\* ====================================================== properties
Portrait == <<"p","o","r","t","r","a","i","t">>
Loaded == pc # "load_config" /\ confFiles # {}
Cols == config.GRID_COLS
Rows == config.GRID_ROWS
PerPage == Cols * Rows
Gap == config.GAP_MM.v
Max(a, b) == IF a > b THEN a ELSE b

RECURSIVE Flatten(_)
Flatten(seqs) == IF seqs = <<>> THEN <<>> ELSE Head(seqs) \o Flatten(Tail(seqs))

LastReport == stdout[Len(stdout)]
Reported(m) == Len(stdout) > 0 /\ LastReport.msg = m
PagesComplete == pc = "done" \/ (pc = "pages" /\ Len(pages) = total_pages)

\* C1: once every page has been built, the pages are ceil(len/per_page) in
\* number, their cards concatenated in page order are the image list, every
\* page but the last holds per_page cards and the last holds 1..per_page.
C1_PaginationExact ==
    PagesComplete =>
        LET n == Len(image_files)
            k == Len(page_cards)
        IN /\ k = Len(pages)
           /\ k >= 1
           /\ k * PerPage >= n
           /\ (k - 1) * PerPage < n
           /\ Flatten(page_cards) = image_files
           /\ \A j \in 1..(k - 1) : Len(page_cards[j]) = PerPage
           /\ Len(page_cards[k]) \in 1..PerPage

C1_Witness ==
    /\ pc = "done"
    /\ PerPage >= 2
    /\ Len(page_cards) >= 2
    /\ Len(page_cards[Len(page_cards)]) < PerPage

\* The paper size the orientation rule prescribes, from the raw config:
\* portrait exactly when the value is "portrait" in some mix of cases.
SaysPortrait(raw) ==
    /\ Len(raw) = Len(Portrait)
    /\ \A i \in 1..Len(raw) :
          \/ raw[i] = Portrait[i]
          \/ \E u \in 1..Len(UpperAlpha) :
                LowerAlpha[u] = Portrait[i] /\ raw[i] = UpperAlpha[u]

RawOrientation == DictGet(config, "PAPER_ORIENTATION", <<"l","a","n","d","s","c","a","p","e">>)

EffectivePaper ==
    LET w == config.PAPER_WIDTH_MM.v
        h == config.PAPER_HEIGHT_MM.v
    IN IF SaysPortrait(RawOrientation)
       THEN <<Min(w, h), Max(w, h)>>
       ELSE <<Max(w, h), Min(w, h)>>

RequiredWidth == config.CARD_WIDTH_MM.v * Cols + Gap * (Cols - 1)
RequiredHeight == config.CARD_HEIGHT_MM.v * Rows + Gap * (Rows - 1)
TooLarge == RequiredWidth > EffectivePaper[1] \/ RequiredHeight > EffectivePaper[2]
Validated == Loaded /\ pc \in {"layout", "pages", "done", "exit1"}

ConfigMissing == pc # "load_config" /\ confFiles = {}
NoImagesFound ==
    Loaded /\ pc \notin {"orientation", "convert", "list_images"}
           /\ image_files = <<>>
GridTooLarge == Validated /\ image_files # <<>> /\ TooLarge
NothingProduced == pages = <<>> /\ page_cards = <<>> /\ written = <<>>

\* C3: after ConfigMissing, NoImagesFound or GridTooLarge the run has ended
\* with no page composited and no file written; on NoImagesFound the
\* paginator has not run.
C3_FatalBeforeOutput ==
    /\ ConfigMissing => pc = "exit1" /\ NothingProduced
    /\ NoImagesFound => pc = "returned" /\ NothingProduced /\ total_pages = 0
    /\ GridTooLarge => pc = "exit1" /\ NothingProduced

C3_Witness ==
    /\ GridTooLarge
    /\ Reported("GridTooLarge")
    /\ Len(image_files) > PerPage

\* C4: the effective paper is (min, max) when the orientation says portrait
\* in any case and (max, min) otherwise, missing or unrecognized values
\* included; it is a permutation of the declared pair and normalizing it
\* again changes nothing.
C4_OrientationNormalized ==
    (Loaded /\ pc # "orientation") =>
        LET w == config.PAPER_WIDTH_MM
            h == config.PAPER_HEIGHT_MM
        IN /\ paper_mm = <<PyInt(EffectivePaper[1]), PyInt(EffectivePaper[2])>>
           /\ (orientation = Portrait) <=> SaysPortrait(RawOrientation)
           /\ paper_mm \in {<<w, h>>, <<h, w>>}
           /\ NormalizeOrientation(orientation, paper_mm[1], paper_mm[2]) = paper_mm

C4_Witness ==
    /\ pc = "convert"
    /\ RawOrientation = <<"P","o","r","t","r","a","i","t">>
    /\ config.PAPER_WIDTH_MM.v > config.PAPER_HEIGHT_MM.v
    /\ paper_mm = <<config.PAPER_HEIGHT_MM, config.PAPER_WIDTH_MM>>

\* ------------------------------------------------ what a canvas shows
IsPaste(o) == o.op = "paste"
IsMark(o) == o.op = "line" /\ o.fill = "MARK_COLOR"
IsGuide(o) == o.op = "line" /\ o.fill = "GUIDE_LINE_COLOR"
Pastes(k) == SelectSeq(pages[k].ops, IsPaste)
Marks(k) == SelectSeq(pages[k].ops, IsMark)
Guides(k) == SelectSeq(pages[k].ops, IsGuide)

PitchX == px.card_width_px + px.spacing_px
PitchY == px.card_height_px + px.spacing_px
\* top-left corner of the slot of the card at 0-based index i
SlotAt(i) == <<start[1] + (i % Cols) * PitchX, start[2] + (i \div Cols) * PitchY>>
GridWidthPx == px.card_width_px * Cols + px.spacing_px * (Cols - 1)
GridHeightPx == px.card_height_px * Rows + px.spacing_px * (Rows - 1)
Readable(file) == file.stem \notin corrupt

\* C5: on every page the card at index i is pasted at column i mod cols,
\* row i div cols, at start + index*(card + gap) on each axis; nothing is
\* pasted into a slot beyond the page's cards and no two cards share a slot.
C5_RowMajorPlacement ==
    \A k \in 1..Len(pages) :
        LET cards == page_cards[k]
            n == Len(cards)
            pastes == Pastes(k)
        IN /\ n <= PerPage
           /\ \A i \in 0..(n - 1) :
                 Readable(cards[i + 1]) =>
                    \E j \in 1..Len(pastes) :
                       pastes[j].image = cards[i + 1] /\ pastes[j].at = SlotAt(i)
           /\ \A j \in 1..Len(pastes) :
                 \E i \in 0..(n - 1) :
                    pastes[j].image = cards[i + 1] /\ pastes[j].at = SlotAt(i)
           /\ \A i, j \in 1..Len(pastes) : i # j => pastes[i].at # pastes[j].at
           /\ \A i, j \in 0..(n - 1) : i # j => SlotAt(i) # SlotAt(j)

C5_Witness ==
    /\ Len(pages) >= 1
    /\ Cols >= 2 /\ Rows >= 2
    /\ px.spacing_px > 0
    /\ Len(page_cards[1]) = Cols + 1
    /\ Len(Pastes(1)) = Cols + 1
    /\ Pastes(1)[Cols + 1].at = <<start[1], start[2] + PitchY>>

MarkLengthPx == (config.MARK_LENGTH_MM.v * config.DPI * 10) \div 254
HorizontalAt(c) ==
    [op |-> "line", from |-> <<c[1] - MarkLengthPx, c[2]>>,
     to |-> <<c[1] + MarkLengthPx, c[2]>>, fill |-> "MARK_COLOR"]
VerticalAt(c) ==
    [op |-> "line", from |-> <<c[1], c[2] - MarkLengthPx>>,
     to |-> <<c[1], c[2] + MarkLengthPx>>, fill |-> "MARK_COLOR"]
CornerOf(i, j) ==
    <<SlotAt(i)[1] + (IF j \in {2, 4} THEN px.card_width_px ELSE 0),
      SlotAt(i)[2] + (IF j \in {3, 4} THEN px.card_height_px ELSE 0)>>

\* C6: on every page each card, and nothing else, gets four crosses, at
\* (x,y), (x+w,y), (x,y+h), (x+w,y+h) of its own slot; a cross is a
\* horizontal and a vertical segment reaching mark_length_px either side of
\* the corner; marks are drawn per card, shared corners twice.
C6_CornerMarks ==
    \A k \in 1..Len(pages) :
        LET cards == page_cards[k]
            n == Len(cards)
            marks == Marks(k)
        IN /\ Len(marks) = 8 * n
           /\ \A i \in 0..(n - 1) : \A j \in 1..4 :
                 /\ marks[8 * i + 2 * (j - 1) + 1] = HorizontalAt(CornerOf(i, j))
                 /\ marks[8 * i + 2 * (j - 1) + 2] = VerticalAt(CornerOf(i, j))
           /\ \A i \in 0..(n - 1) :
                 Readable(cards[i + 1]) =>
                    \E j \in 1..Len(Pastes(k)) :
                       /\ Pastes(k)[j].image = cards[i + 1]
                       /\ Pastes(k)[j].at = CornerOf(i, 1)

C6_Witness ==
    /\ Len(pages) >= 1
    /\ Len(page_cards[1]) = 2
    /\ PerPage > 2
    /\ px.card_width_px # px.card_height_px
    /\ Len(Marks(1)) = 16
    /\ px.spacing_px = 0
    /\ Marks(1)[3] = Marks(1)[9]

GuidesEnabled == DictGet(config, "GUIDE_LINE_ENABLED", TRUE)
IsVertical(l) == l.from[1] = l.to[1]
IsHorizontal(l) == l.from[2] = l.to[2]

\* C7: with guide lines enabled (or the key absent) each page carries cols+1
\* vertical lines running from the grid's top to its bottom and rows+1
\* horizontal lines running from its left to its right, every one within
\* the grid extent and the outermost on its outer edges; disabled, none.
C7_GuideLinesWithinGrid ==
    \A k \in 1..Len(pages) :
        LET g == Guides(k)
            v == SelectSeq(g, IsVertical)
            h == SelectSeq(g, IsHorizontal)
        IN IF GuidesEnabled
           THEN /\ Len(v) = Cols + 1
                /\ Len(h) = Rows + 1
                /\ Len(g) = Cols + Rows + 2
                /\ \A i \in 1..Len(v) :
                      /\ v[i].from[2] = start[2]
                      /\ v[i].to[2] = start[2] + GridHeightPx
                      /\ v[i].from[1] >= start[1]
                      /\ v[i].from[1] <= start[1] + GridWidthPx
                /\ \A i \in 1..Len(h) :
                      /\ h[i].from[1] = start[1]
                      /\ h[i].to[1] = start[1] + GridWidthPx
                      /\ h[i].from[2] >= start[2]
                      /\ h[i].from[2] <= start[2] + GridHeightPx
                /\ \E i \in 1..Len(v) : v[i].from[1] = start[1]
                /\ \E i \in 1..Len(v) : v[i].from[1] = start[1] + GridWidthPx
                /\ \E i \in 1..Len(h) : h[i].from[2] = start[2]
                /\ \E i \in 1..Len(h) : h[i].from[2] = start[2] + GridHeightPx
           ELSE g = <<>>

IsFailure(r) == r.msg = "ImageLoadFailure"
Failures == SelectSeq(stdout, IsFailure)
Unreadable(file) == ~Readable(file)

\* C8: a card whose image cannot be loaded leaves only its own slot blank
\* and is reported once; every other card of the page and of later pages is
\* pasted in its own slot, the marks are drawn for every card, the run does
\* not abort, and every page reaches the writer.
C8_ImageFailureLocalized ==
    /\ \A k \in 1..Len(pages) :
          LET cards == page_cards[k]
              pastes == Pastes(k)
          IN /\ \A i \in 0..(Len(cards) - 1) :
                   IF Readable(cards[i + 1])
                   THEN \E j \in 1..Len(pastes) :
                           pastes[j].image = cards[i + 1] /\ pastes[j].at = SlotAt(i)
                   ELSE \A j \in 1..Len(pastes) :
                           pastes[j].image # cards[i + 1] /\ pastes[j].at # SlotAt(i)
             /\ Len(Marks(k)) = 8 * Len(cards)
    /\ Len(Failures) = Len(SelectSeq(Flatten(page_cards), Unreadable))
    /\ \A i \in 1..Len(Failures) :
          Failures[i].file = SelectSeq(Flatten(page_cards), Unreadable)[i]
    /\ Failures # <<>> => pc \in {"pages", "done"}
    /\ (pc = "pages" /\ Len(pages) = total_pages) => Flatten(page_cards) = image_files
    /\ pc = "done" =>
          /\ Len(pages) = total_pages
          /\ Flatten(page_cards) = image_files
          /\ Flatten([i \in 1..Len(written) |-> written[i].images]) = pages

C8_Witness ==
    /\ pc = "done"
    /\ Len(pages) >= 2
    /\ Len(page_cards[1]) >= 2
    /\ Unreadable(page_cards[1][1])
    /\ Readable(page_cards[1][2])
    /\ Len(Failures) = 1
    /\ Len(Pastes(1)) = Len(page_cards[1]) - 1
    /\ Len(Pastes(2)) >= 1

\* floor((paper + gap) / (card + gap)) as the largest count that fits
Fit(paper, card) ==
    CHOOSE m \in 0..(paper + Gap) :
        /\ m * (card + Gap) <= paper + Gap
        /\ (m + 1) * (card + Gap) > paper + Gap
OppositeCols == Fit(EffectivePaper[2], config.CARD_WIDTH_MM.v)
OppositeRows == Fit(EffectivePaper[1], config.CARD_HEIGHT_MM.v)
OppositeName == IF SaysPortrait(RawOrientation) THEN "landscape" ELSE "portrait"

\* C9 as stated: every GridTooLarge diagnostic carries the maximum grid of
\* the opposite orientation.
C9_OppositeAlwaysIncluded ==
    Reported("GridTooLarge") => LastReport.suggestion # <<>>

\* C9 as amended: every GridTooLarge diagnostic carries the required
\* width and height, which of them failed and the maximum columns and rows
\* of the current orientation; it carries the opposite orientation's
\* maximum grid exactly when that grid has at least the requested columns
\* and at least the requested rows.
C9_DiagnosticContents ==
    Reported("GridTooLarge") =>
        LET r == LastReport
        IN /\ r.width_needed = PyInt(RequiredWidth)
           /\ r.height_needed = PyInt(RequiredHeight)
           /\ r.width_fits <=> (RequiredWidth <= EffectivePaper[1])
           /\ r.height_fits <=> (RequiredHeight <= EffectivePaper[2])
           /\ ~r.width_fits \/ ~r.height_fits
           /\ r.max_cols = Fit(EffectivePaper[1], config.CARD_WIDTH_MM.v)
           /\ r.max_rows = Fit(EffectivePaper[2], config.CARD_HEIGHT_MM.v)
           /\ r.suggestion =
                 IF OppositeCols >= Cols /\ OppositeRows >= Rows
                 THEN <<[try |-> OppositeName, cols |-> OppositeCols,
                         rows |-> OppositeRows]>>
                 ELSE <<>>

C9_Witness ==
    /\ Reported("GridTooLarge")
    /\ orientation = Portrait
    /\ ~LastReport.width_fits
    /\ LastReport.suggestion =
          <<[try |-> "landscape", cols |-> OppositeCols, rows |-> OppositeRows]>>
    /\ OppositeCols > LastReport.max_cols

\* C10: the margin right of the grid is start_x or start_x + 1 and the
\* margin below it is start_y or start_y + 1.
C10_CenteringSymmetric ==
    pc \in {"pages", "done"} =>
        /\ px.paper_width_px - (start[1] + GridWidthPx) \in {start[1], start[1] + 1}
        /\ px.paper_height_px - (start[2] + GridHeightPx) \in {start[2], start[2] + 1}

C10_Witness ==
    /\ pc = "pages"
    /\ Cols >= 2
    /\ px.spacing_px > 0
    /\ px.paper_width_px - (start[1] + GridWidthPx) = start[1] + 1
    /\ px.paper_height_px - (start[2] + GridHeightPx) = start[2]

\* ------------------------------------------------------------- C11
StartsWith(s, prefix) == Len(s) >= Len(prefix) /\ SubSeq(s, 1, Len(prefix)) = prefix
TimestampPrefixes == { OutputPath(ts, <<>>) : ts \in Timestamps }
IsPdfName(name) ==
    /\ Len(name) >= 4
    /\ name[Len(name) - 3] = "."
    /\ name[Len(name) - 2] \in {"p", "P"}
    /\ name[Len(name) - 1] \in {"d", "D"}
    /\ name[Len(name)] \in {"f", "F"}
\* <base>_<pagenumber>.<ext> for the configured <base>.<ext>
NumberedName(prefix, i) ==
    LET name == config.OUTPUT_FILE
        dot == CHOOSE k \in 1..Len(name) :
                   name[k] = "." /\ \A j \in (k + 1)..Len(name) : name[j] # "."
    IN prefix \o SubSeq(name, 1, dot - 1) \o <<"_">> \o IntToText(i)
           \o SubSeq(name, dot, Len(name))

\* C11: nothing is written before every page is composited, and the writer
\* runs once, as the last step.  A .pdf output name (any letter case) gives
\* exactly one file holding all pages in page order; any other name gives
\* one file per page, called <base>_<n>.<ext> with n counting from 1 when
\* there are two or more pages and <base>.<ext> when there is one.  Every
\* name starts with outputs/<timestamp>_.
C11_OutputFiles ==
    /\ written # <<>> => pc = "done" /\ Len(pages) = total_pages /\ total_pages >= 1
    /\ pc = "done" =>
         \E prefix \in TimestampPrefixes :
            IF IsPdfName(config.OUTPUT_FILE)
            THEN /\ Len(written) = 1
                 /\ written[1].name = prefix \o config.OUTPUT_FILE
                 /\ written[1].images = pages
            ELSE /\ Len(written) = Len(pages)
                 /\ \A i \in 1..Len(pages) :
                       /\ written[i].images = <<pages[i]>>
                       /\ written[i].name =
                            IF Len(pages) = 1 THEN prefix \o config.OUTPUT_FILE
                            ELSE NumberedName(prefix, i)

C11_Witness ==
    /\ pc = "done"
    /\ ~IsPdfName(config.OUTPUT_FILE)
    /\ Len(written) = 2
    /\ written[2].name = <<"o","u","t","p","u","t","s","/","1","7","_","s","_","2",".","p","n","g">>

\* ------------------------------------------------------------- C12
PasteInsidePaper(o) ==
    /\ o.at[1] >= 0
    /\ o.at[2] >= 0
    /\ o.at[1] + o.size[1] <= px.paper_width_px
    /\ o.at[2] + o.size[2] <= px.paper_height_px

\* C12: once the millimetre validation has passed, the pixel grid fits the
\* page: start_x >= 0 and start_y >= 0, and every card pasted on a page
\* lies within [0, paper_width_px] x [0, paper_height_px].
C12_PixelLayoutFits ==
    pc \in {"pages", "done"} =>
        /\ start[1] >= 0
        /\ start[2] >= 0
        /\ \A k \in 1..Len(pages) :
              \A i \in 1..Len(Pastes(k)) : PasteInsidePaper(Pastes(k)[i])

\* ------------------------------------------------------------- C13
\* card * n + gap * (n - 1) <= paper, as the program computes it
FitsAlong(card_mm, n, paper) == NumCmp(TotalNeeded(card_mm, config.GAP_MM, n), paper) <= 0

\* C13: the maximum grid a GridTooLarge diagnostic reports is the largest
\* that fits: max_cols columns fit the paper width when max_cols >= 1 and
\* max_cols + 1 do not, likewise max_rows; so a grid of max_cols x max_rows
\* passes validation on the same paper, and the requested grid exceeds the
\* reported one in columns or in rows.
C13_MaxGridIsMaximal ==
    Reported("GridTooLarge") =>
        LET r == LastReport
        IN /\ r.max_cols >= 1 => FitsAlong(config.CARD_WIDTH_MM, r.max_cols, paper_mm[1])
           /\ ~FitsAlong(config.CARD_WIDTH_MM, r.max_cols + 1, paper_mm[1])
           /\ r.max_rows >= 1 => FitsAlong(config.CARD_HEIGHT_MM, r.max_rows, paper_mm[2])
           /\ ~FitsAlong(config.CARD_HEIGHT_MM, r.max_rows + 1, paper_mm[2])
           /\ (r.max_cols >= 1 /\ r.max_rows >= 1) =>
                 ValidateGridFits(paper_mm[1], paper_mm[2], config.CARD_WIDTH_MM,
                                  config.CARD_HEIGHT_MM, config.GAP_MM,
                                  r.max_cols, r.max_rows, orientation).ok
           /\ r.max_cols < Cols \/ r.max_rows < Rows
====
